---- MODULE Spec2Model ----
(***************************************************************************)
(* A model of src/pdf_to_excel.py: PDFToExcelConverter.run walks an input  *)
(* tree and calls convert_pdf_to_excel on every file whose name ends in    *)
(* .pdf.  Paths are sequences of components, a component is a sequence of  *)
(* one-character strings; tables are sequences of rows, rows are sequences *)
(* of cells.  The libraries (tkinter, os, pdfplumber, pandas) are the      *)
(* environment: each call into them either returns or raises.              *)
(***************************************************************************)
EXTENDS Integers, Sequences, FiniteSets, TLC

VARIABLES
    pc,                   \* position of run()
    input_folder,         \* run(): first result of select_folder_and_output, <<>> when falsy
    output_parent_folder, \* run(): second result, <<>> when falsy
    output_folder,        \* run(): line 137, <<>> before it is computed
    tree,                 \* what os.walk(input_folder) yields: <<[rel, files], ...>>
    wi,                   \* how many files the loops of lines 142-143 have taken
    calls,                \* the calls of convert_pdf_to_excel made so far, in order
    last_print,           \* the last line print() wrote
    cpc,                  \* position of convert_pdf_to_excel
    pdf_path, excel_path, \* its two arguments
    pdf,                  \* the opened document: one entry per page
    page_number, total_pages, all_tables, df, col, success,
    log,                  \* the records self.logger wrote during the current call
    raised,               \* the errors raised during the current call: [at, kind]
    opened,               \* how often the current call called pdfplumber.open
    handles,              \* the PDF document handles that are open
    fs, dirs,             \* files and directories under the output parent
    fs_before             \* fs and dirs when the current call started

runVars  == <<pc, input_folder, output_parent_folder, output_folder, tree, wi,
              calls, last_print>>
callVars == <<cpc, pdf_path, excel_path, pdf, page_number, total_pages, all_tables,
              df, col, success, log, raised, opened, fs_before>>
envVars  == <<handles, fs, dirs>>
vars     == <<runVars, callVars, envVars>>

\* ------------------------------------------------------------------ bounds
MaxPages == 3    \* pages of a document
MaxRows  == 2    \* rows of the table of one page
MaxFiles == 2    \* files of the top directory of the input tree

\* ------------------------------------------------------------ strings, paths
DotPdf  == <<".", "p", "d", "f">>
DotPDF  == <<".", "P", "D", "F">>
DotTxt  == <<".", "t", "x", "t">>
DotXlsx == <<".", "x", "l", "s", "x">>

\* str.lower() on the characters of the model's file names
LowerChar(c) ==
    CASE c = "P" -> "p"
      [] c = "D" -> "d"
      [] c = "F" -> "f"
      [] OTHER   -> c

Lower(s) == [i \in 1..Len(s) |-> LowerChar(s[i])]

\* str.endswith
EndsWith(s, suffix) ==
    /\ Len(s) >= Len(suffix)
    /\ SubSeq(s, Len(s) - Len(suffix) + 1, Len(s)) = suffix

\* line 144
IsPdfName(file_name) == EndsWith(Lower(file_name), DotPdf)

\* str.rfind(".") on one path component, 1-based, 0 when there is none
RFindDot(p) ==
    LET ds == {i \in 1..Len(p) : p[i] = "."}
    IN  IF ds = {} THEN 0 ELSE CHOOSE i \in ds : \A j \in ds : j <= i

\* os.path.splitext on one path component: the extension starts at the last
\* dot, unless only dots precede that dot (genericpath._splitext)
SplitExtName(p) ==
    LET dotIndex == RFindDot(p)
    IN  IF dotIndex > 0 /\ \E i \in 1..(dotIndex - 1) : p[i] # "."
        THEN <<SubSeq(p, 1, dotIndex - 1), SubSeq(p, dotIndex, Len(p))>>
        ELSE <<p, <<>>>>

\* os.path.splitext(relative_path)[0] + ".xlsx", lines 146-150: the separators
\* before the last component bound the search for the dot
XlsxRelPath(relative_path) ==
    LET n == Len(relative_path)
    IN  SubSeq(relative_path, 1, n - 1)
            \o <<SplitExtName(relative_path[n])[1] \o DotXlsx>>

\* os.path.basename, os.path.dirname, os.path.relpath of a path under start
Basename(path) == path[Len(path)]
Dirname(path)  == SubSeq(path, 1, Len(path) - 1)
Relpath(path, start) == SubSeq(path, Len(start) + 1, Len(path))

\* lines 145-150
ExcelPathFor(out_folder, in_folder, root_dir, file_name) ==
    LET path == root_dir \o <<file_name>>
    IN  out_folder \o XlsxRelPath(Relpath(path, in_folder))

\* lines 137-139 without the name of the input folder
OutputFolderIsParent(out_parent, in_folder) == out_parent

\* line 137-139
OutputFolderFor(out_parent, in_folder) == out_parent \o <<Basename(in_folder)>>

\* ------------------------------------------------------------------ tables
RowH  == <<"h">>
RowD  == <<"1", "x">>
Rows  == {RowH, RowD}

NoDf == [built |-> FALSE, columns |-> <<>>, data |-> <<>>]

SeqsUpTo(S, n) == UNION {[1..k -> S] : k \in 0..n}

\* what page.extract_table() does on one page: it raises, or returns None, an
\* empty list or a table
PageOutcomes(maxRows) ==
    {[kind |-> "raise", rows |-> <<>>], [kind |-> "none", rows |-> <<>>]}
        \cup {[kind |-> "table", rows |-> t] : t \in SeqsUpTo(Rows, maxRows)}

Docs(maxPages, maxRows) == SeqsUpTo(PageOutcomes(maxRows), maxPages)

\* lines 29-34: the table, or None
ExtractTableFromPage(page) ==
    IF page.kind = "table" /\ Len(page.rows) > 0
    THEN [kind |-> "table", rows |-> page.rows]
    ELSE [kind |-> "none", rows |-> <<>>]

\* lines 53-57 with the test of line 54 inverted
AccumulateInverted(acc, table) ==
    IF table.kind = "table"
    THEN IF acc # <<>> THEN table.rows ELSE acc \o Tail(table.rows)
    ELSE acc

\* lines 53-57 with line 57 appending the whole table
AccumulateKeepHeader(acc, table) ==
    IF table.kind = "table"
    THEN IF acc = <<>> THEN table.rows ELSE acc \o table.rows
    ELSE acc

\* lines 53-57
Accumulate(acc, table) ==
    IF table.kind = "table"
    THEN IF acc = <<>> THEN table.rows ELSE acc \o Tail(table.rows)
    ELSE acc

\* line 68 without its second test
NoValidDataEmptyOnly(acc) == acc = <<>>

\* line 68
NoValidData(acc) == acc = <<>> \/ Len(acc) <= 1

MaxOf(S) == IF S = {} THEN 0 ELSE CHOOSE m \in S : \A x \in S : x <= m

Width(data) == MaxOf({Len(data[r]) : r \in 1..Len(data)})

Pad(row, w) == [j \in 1..w |-> IF j <= Len(row) THEN row[j] ELSE "None"]

AutoLabels(w) == [j \in 1..w |-> IF j = 1 THEN "0" ELSE "1"]

\* lines 73-76: pandas pads short rows, and refuses column labels whose number
\* is not the width of the data
FrameRaises(acc) == Len(acc[1]) > 1 /\ Len(acc[1]) # Width(Tail(acc))

DataFrame(acc) ==
    LET data == Tail(acc)
        w    == Width(data)
    IN  [built   |-> TRUE,
         columns |-> IF Len(acc[1]) > 1 THEN acc[1] ELSE AutoLabels(w),
         data    |-> [r \in 1..Len(data) |-> Pad(data[r], w)]]

Column(frame, j) == [r \in 1..Len(frame.data) |-> frame.data[r][j]]

IsNumeric(cell) == cell \in {"1", "None"}
NumericOf(cell) == IF cell = "1" THEN "int:1" ELSE "NaN"

\* pd.to_numeric(column, errors="ignore"), line 81: the whole column or nothing
ToNumeric(column) ==
    IF \A r \in 1..Len(column) : IsNumeric(column[r])
    THEN [r \in 1..Len(column) |-> NumericOf(column[r])]
    ELSE column

SetColumn(frame, j, column) ==
    [frame EXCEPT !.data = [r \in 1..Len(frame.data) |->
                                [frame.data[r] EXCEPT ![j] = column[r]]]]

\* ------------------------------------------------------------------ errors
ErrorKinds == {"OSError", "ValueError", "TypeError", "PDFSyntaxError"}

\* line 91 catching ValueError alone
CatchesValueErrorOnly(kind) == kind = "ValueError"

\* line 91: except Exception
Catches(kind) == kind \in ErrorKinds

\* line 82: except ValueError
CoerceCatches(kind) == kind = "ValueError"

LogRec(level, msg) == [level |-> level, msg |-> msg]

\* ------------------------------------------------------------ input tree
DirHome == <<"h", "o", "m", "e">>
DirIn   == <<"i", "n">>
DirOut  == <<"o", "u", "t">>
DirSub  == <<"s", "u", "b">>

InputFolder  == <<DirHome, DirIn>>    \* the folder the first dialog offers
OutputParent == <<DirOut>>            \* the folder the second dialog offers

FileNames == {<<"a">> \o DotPdf, <<"a">> \o DotPDF, DotPdf, DotPdf \o DotPdf,
              <<"a">> \o DotTxt}

DistinctSeqs(S, n) ==
    {s \in SeqsUpTo(S, n) : \A i, j \in 1..Len(s) : i # j => s[i] # s[j]}

\* a top directory and one sub-directory, each with its files in listing order
Trees ==
    {<<[rel |-> <<>>, files |-> top], [rel |-> <<DirSub>>, files |-> sub]>> :
        top \in DistinctSeqs(FileNames, MaxFiles), sub \in DistinctSeqs(FileNames, 1)}

\* lines 142-143: the files in the order the two loops reach them
RECURSIVE Walk(_, _)
Walk(t, in_folder) ==
    IF t = <<>> THEN <<>>
    ELSE [i \in 1..Len(t[1].files) |->
              [root_dir |-> in_folder \o t[1].rel, file_name |-> t[1].files[i]]]
             \o Walk(Tail(t), in_folder)

\* ------------------------------------------------- convert_pdf_to_excel
\* line 45 without the with block: nothing closes the document
ExitWithLeak(hs, path) == hs

\* leaving the with block of line 45 closes the document
ExitWith(hs, path) == hs \ {path}

\* a return from inside the try
Return(value, lg) ==
    /\ cpc' = "returned"
    /\ success' = value
    /\ log' = lg
    /\ handles' = ExitWith(handles, pdf_path)

\* an error raised inside the try, lines 91-93
Raise(at, kind) ==
    /\ raised' = raised \cup {[at |-> at, kind |-> kind]}
    /\ handles' = ExitWith(handles, pdf_path)
    /\ IF Catches(kind)
       THEN /\ cpc' = "returned"
            /\ success' = FALSE
            /\ log' = Append(log, LogRec("error", "Conversion failed"))
       ELSE /\ cpc' = "escaped"
            /\ UNCHANGED <<success, log>>

\* lines 41-43
ConvCheckExists ==
    /\ cpc = "exists"
    /\ \E exists \in BOOLEAN :
         IF exists
         THEN /\ cpc' = "open"
              /\ UNCHANGED <<success, log, handles>>
         ELSE Return(FALSE, Append(log, LogRec("error", "PDF file not found")))
    /\ UNCHANGED <<runVars, pdf_path, excel_path, pdf, page_number, total_pages,
                   all_tables, df, col, raised, opened, fs, dirs, fs_before>>

\* line 45: pdfplumber.open returns a document or raises
ConvOpen(docs) ==
    /\ cpc = "open"
    /\ opened' = opened + 1
    /\ \/ /\ \E d \in docs : pdf' = d
          /\ handles' = handles \cup {pdf_path}
          /\ cpc' = "pages"
          /\ UNCHANGED <<success, log, raised>>
       \/ /\ \E kind \in {"OSError", "PDFSyntaxError"} : Raise("open", kind)
          /\ UNCHANGED pdf
    /\ UNCHANGED <<runVars, pdf_path, excel_path, page_number, total_pages,
                   all_tables, df, col, fs, dirs, fs_before>>

\* lines 46-49: len(pdf.pages) returns or raises
ConvCountPages ==
    /\ cpc = "pages"
    /\ \/ /\ total_pages' = Len(pdf)
          /\ all_tables' = <<>>
          /\ page_number' = 0
          /\ last_print' = [kind |-> "Processing", arg |-> <<Basename(pdf_path)>>]
          /\ cpc' = "loop"
          /\ UNCHANGED <<success, log, raised, handles>>
       \/ /\ Raise("pages", "PDFSyntaxError")
          /\ UNCHANGED <<total_pages, all_tables, page_number, last_print>>
    /\ UNCHANGED <<pc, input_folder, output_parent_folder, output_folder, tree, wi,
                   calls, pdf_path, excel_path, pdf, df, col, opened, fs, dirs,
                   fs_before>>

\* lines 50-64: one iteration of the page loop
ConvPage ==
    /\ cpc = "loop"
    /\ page_number < total_pages
    /\ LET page  == pdf[page_number + 1]
           table == ExtractTableFromPage(page)
       IN  /\ all_tables' = Accumulate(all_tables, table)
           /\ IF page.kind = "raise"
              THEN /\ log' = Append(log, LogRec("warning", "Could not extract table"))
                   /\ raised' = raised \cup {[at |-> "extract", kind |-> "ValueError"]}
              ELSE UNCHANGED <<log, raised>>
    /\ page_number' = page_number + 1
    /\ last_print' = [kind |-> "progress", arg |-> <<Basename(pdf_path)>>]
    /\ UNCHANGED <<pc, input_folder, output_parent_folder, output_folder, tree, wi,
                   calls, cpc, pdf_path, excel_path, pdf, total_pages, df, col,
                   success, opened, envVars, fs_before>>

\* lines 66-70
ConvValidate ==
    /\ cpc = "loop"
    /\ page_number = total_pages
    /\ last_print' = [kind |-> "newline", arg |-> <<>>]
    /\ IF NoValidData(all_tables)
       THEN Return(FALSE, Append(log, LogRec("warning", "No valid table data")))
       ELSE /\ cpc' = "frame"
            /\ UNCHANGED <<success, log, handles>>
    /\ UNCHANGED <<pc, input_folder, output_parent_folder, output_folder, tree, wi,
                   calls, pdf_path, excel_path, pdf, page_number, total_pages,
                   all_tables, df, col, raised, opened, fs, dirs, fs_before>>

\* lines 73-76
ConvFrame ==
    /\ cpc = "frame"
    /\ IF FrameRaises(all_tables)
       THEN /\ Raise("frame", "ValueError")
            /\ UNCHANGED <<df, col>>
       ELSE /\ df' = DataFrame(all_tables)
            /\ col' = 1
            /\ cpc' = "coerce"
            /\ UNCHANGED <<success, log, raised, handles>>
    /\ UNCHANGED <<runVars, pdf_path, excel_path, pdf, page_number, total_pages,
                   all_tables, opened, fs, dirs, fs_before>>

\* lines 79-83: one iteration of the column loop; pd.to_numeric returns or raises
ConvCoerce ==
    /\ cpc = "coerce"
    /\ col <= Len(df.columns)
    /\ \/ /\ df' = SetColumn(df, col, ToNumeric(Column(df, col)))
          /\ col' = col + 1
          /\ UNCHANGED <<cpc, success, log, raised, handles>>
       \/ \E kind \in {"ValueError", "TypeError"} :
            IF CoerceCatches(kind)
            THEN /\ log' = Append(log, LogRec("warning", "Column could not be converted"))
                 /\ raised' = raised \cup {[at |-> "coerce", kind |-> kind]}
                 /\ col' = col + 1
                 /\ UNCHANGED <<cpc, success, df, handles>>
            ELSE /\ Raise("coerce", kind)
                 /\ UNCHANGED <<df, col>>
    /\ UNCHANGED <<runVars, pdf_path, excel_path, pdf, page_number, total_pages,
                   all_tables, opened, fs, dirs, fs_before>>

\* os.makedirs(path, exist_ok=True): the directory and its parents
Makedirs(ds, path) == ds \cup {SubSeq(path, 1, k) : k \in 1..Len(path)}

\* lines 85-89: os.makedirs and df.to_excel each return or raise; a write that
\* raises may leave a file behind
ConvSave ==
    /\ cpc = "coerce"
    /\ col > Len(df.columns)
    /\ \/ /\ Raise("makedirs", "OSError")
          /\ UNCHANGED <<fs, dirs>>
       \/ /\ dirs' = Makedirs(dirs, Dirname(excel_path))
          /\ \E partial \in BOOLEAN :
               fs' = IF partial THEN fs \cup {excel_path} ELSE fs
          /\ Raise("to_excel", "OSError")
       \/ /\ dirs' = Makedirs(dirs, Dirname(excel_path))
          /\ fs' = fs \cup {excel_path}
          /\ Return(TRUE, Append(log, LogRec("info", "Successfully converted")))
          /\ UNCHANGED raised
    /\ UNCHANGED <<runVars, pdf_path, excel_path, pdf, page_number, total_pages,
                   all_tables, df, col, opened, fs_before>>

\* ------------------------------------------------------------------- run
\* lines 95-123: both folders, or (None, None)
SelectFolderAndOutput(outcome) ==
    IF outcome = "ok" THEN <<InputFolder, OutputParent>> ELSE <<<<>>, <<>>>>

\* lines 129-134; tk.Tk() and root.withdraw(), lines 99-100, are outside the try
RunSelect ==
    /\ pc = "start"
    /\ \/ \E outcome \in {"no_input", "no_output", "dialog_error", "ok"} :
            LET sel == SelectFolderAndOutput(outcome)
            IN  /\ input_folder' = sel[1]
                /\ output_parent_folder' = sel[2]
                /\ IF sel[1] = <<>> \/ sel[2] = <<>>
                   THEN /\ last_print' = [kind |-> "No valid folders selected", arg |-> <<>>]
                        /\ pc' = "returned"
                   ELSE /\ pc' = "makedirs"
                        /\ UNCHANGED last_print
       \/ /\ pc' = "raised"
          /\ UNCHANGED <<input_folder, output_parent_folder, last_print>>
    /\ UNCHANGED <<output_folder, tree, wi, calls, callVars, envVars>>

\* lines 137-140: os.makedirs returns or raises, outside any try
RunMakeOutputFolder ==
    /\ pc = "makedirs"
    /\ output_folder' = OutputFolderFor(output_parent_folder, input_folder)
    /\ \/ /\ dirs' = Makedirs(dirs, output_folder')
          /\ pc' = "walk"
       \/ /\ pc' = "raised"
          /\ UNCHANGED dirs
    /\ UNCHANGED <<input_folder, output_parent_folder, tree, wi, calls, last_print,
                   callVars, handles, fs>>

\* lines 143-144: a file whose name does not end in .pdf
RunSkipFile ==
    /\ pc = "walk"
    /\ wi < Len(Walk(tree, input_folder))
    /\ ~IsPdfName(Walk(tree, input_folder)[wi + 1].file_name)
    /\ wi' = wi + 1
    /\ UNCHANGED <<pc, input_folder, output_parent_folder, output_folder, tree,
                   calls, last_print, callVars, envVars>>

\* lines 144-153: the call of convert_pdf_to_excel
RunConvertFile ==
    /\ pc = "walk"
    /\ wi < Len(Walk(tree, input_folder))
    /\ LET f == Walk(tree, input_folder)[wi + 1]
       IN  /\ IsPdfName(f.file_name)
           /\ pdf_path' = f.root_dir \o <<f.file_name>>
           /\ excel_path' = ExcelPathFor(output_folder, input_folder, f.root_dir,
                                         f.file_name)
           /\ last_print' = [kind |-> "Converting", arg |-> <<f.file_name>>]
    /\ calls' = Append(calls, [pdf_path |-> pdf_path', excel_path |-> excel_path'])
    /\ pc' = "convert"
    /\ cpc' = "exists"
    /\ success' = FALSE
    /\ fs_before' = [fs |-> fs, dirs |-> dirs]
    /\ UNCHANGED <<input_folder, output_parent_folder, output_folder, tree, wi,
                   pdf, page_number, total_pages, all_tables, df, col, log, raised,
                   opened, envVars>>

\* lines 155-158 with a return after the failure line
RunReportStopOnFailure ==
    /\ pc = "convert"
    /\ cpc = "returned"
    /\ last_print' = [kind |-> IF success THEN "Successfully converted"
                               ELSE "Failed to convert",
                      arg  |-> <<Basename(pdf_path)>>]
    /\ wi' = wi + 1
    /\ pc' = IF success THEN "walk" ELSE "returned"
    /\ cpc' = "idle"
    /\ pdf' = <<>>
    /\ page_number' = 0
    /\ total_pages' = 0
    /\ all_tables' = <<>>
    /\ df' = NoDf
    /\ col' = 0
    /\ log' = <<>>
    /\ raised' = {}
    /\ opened' = 0
    /\ UNCHANGED <<input_folder, output_parent_folder, output_folder, tree, calls,
                   pdf_path, excel_path, success, fs_before, envVars>>

\* lines 155-158; the locals of the call that returned are gone
RunReport ==
    /\ pc = "convert"
    /\ cpc = "returned"
    /\ last_print' = [kind |-> IF success THEN "Successfully converted"
                               ELSE "Failed to convert",
                      arg  |-> <<Basename(pdf_path)>>]
    /\ wi' = wi + 1
    /\ pc' = "walk"
    /\ cpc' = "idle"
    /\ pdf' = <<>>
    /\ page_number' = 0
    /\ total_pages' = 0
    /\ all_tables' = <<>>
    /\ df' = NoDf
    /\ col' = 0
    /\ log' = <<>>
    /\ raised' = {}
    /\ opened' = 0
    /\ UNCHANGED <<input_folder, output_parent_folder, output_folder, tree, calls,
                   pdf_path, excel_path, success, fs_before, envVars>>

\* line 160
RunSummary ==
    /\ pc = "walk"
    /\ wi = Len(Walk(tree, input_folder))
    /\ last_print' = [kind |-> "All files processed", arg |-> output_folder]
    /\ pc' = "returned"
    /\ UNCHANGED <<input_folder, output_parent_folder, output_folder, tree, wi,
                   calls, callVars, envVars>>

\* --------------------------------------------------------- specifications
\* the documents the files of a walked tree hold
RunDocs  == {d \in Docs(1, 2) : \A i \in 1..Len(d) : d[i].kind = "table"}
\* the documents a single call may open
ConvDocs == Docs(MaxPages, MaxRows)

Init ==
    /\ pc = "start"
    /\ input_folder = <<>>
    /\ output_parent_folder = <<>>
    /\ output_folder = <<>>
    /\ tree \in Trees
    /\ wi = 0
    /\ calls = <<>>
    /\ last_print = [kind |-> "", arg |-> <<>>]
    /\ cpc = "idle"
    /\ pdf_path = <<>>
    /\ excel_path = <<>>
    /\ pdf = <<>>
    /\ page_number = 0
    /\ total_pages = 0
    /\ all_tables = <<>>
    /\ df = NoDf
    /\ col = 0
    /\ success = FALSE
    /\ log = <<>>
    /\ raised = {}
    /\ opened = 0
    /\ handles = {}
    /\ fs = {}
    /\ dirs = {}
    /\ fs_before = [fs |-> {}, dirs |-> {}]

Next ==
    \/ RunSelect
    \/ RunMakeOutputFolder
    \/ RunSkipFile
    \/ RunConvertFile
    \/ RunReport
    \/ RunSummary
    \/ ConvCheckExists
    \/ ConvOpen(RunDocs)
    \/ ConvCountPages
    \/ ConvPage
    \/ ConvValidate
    \/ ConvFrame
    \/ ConvCoerce
    \/ ConvSave

Spec == Init /\ [][Next]_vars

\* one call convert_pdf_to_excel(/home/in/a.pdf, /out/in/a.xlsx), as run() makes
\* it for a tree that holds this one file
OneFileTree ==
    <<[rel |-> <<>>, files |-> <<(<<"a">> \o DotPdf)>>],
      [rel |-> <<DirSub>>, files |-> <<>>]>>

InitConvert ==
    /\ pc = "convert"
    /\ input_folder = InputFolder
    /\ output_parent_folder = OutputParent
    /\ output_folder = OutputFolderFor(OutputParent, InputFolder)
    /\ tree = OneFileTree
    /\ wi = 0
    /\ pdf_path = InputFolder \o <<(<<"a">> \o DotPdf)>>
    /\ excel_path = ExcelPathFor(output_folder, InputFolder, InputFolder,
                                 <<"a">> \o DotPdf)
    /\ calls = <<[pdf_path |-> pdf_path, excel_path |-> excel_path]>>
    /\ last_print = [kind |-> "Converting", arg |-> <<(<<"a">> \o DotPdf)>>]
    /\ cpc = "exists"
    /\ pdf = <<>>
    /\ page_number = 0
    /\ total_pages = 0
    /\ all_tables = <<>>
    /\ df = NoDf
    /\ col = 0
    /\ success = FALSE
    /\ log = <<>>
    /\ raised = {}
    /\ opened = 0
    /\ handles = {}
    /\ fs = {}
    /\ dirs = Makedirs({}, output_folder)
    /\ fs_before = [fs |-> fs, dirs |-> dirs]

NextConvert ==
    \/ ConvCheckExists
    \/ ConvOpen(ConvDocs)
    \/ ConvCountPages
    \/ ConvPage
    \/ ConvValidate
    \/ ConvFrame
    \/ ConvCoerce
    \/ ConvSave

SpecConvert == InitConvert /\ [][NextConvert]_vars

\* -------------------------------------------------------------- properties
\* a page whose extraction returned a non-empty table
NonEmptyPage(p) == p.kind = "table" /\ p.rows # <<>>

\* the rows after the first of every non-empty table of pages lo..hi, in page order
RECURSIVE LaterRows(_, _, _)
LaterRows(d, lo, hi) ==
    IF lo > hi THEN <<>>
    ELSE (IF NonEmptyPage(d[lo]) THEN SubSeq(d[lo].rows, 2, Len(d[lo].rows)) ELSE <<>>)
             \o LaterRows(d, lo + 1, hi)

\* the table of the lowest-numbered non-empty page among 1..k, then the later rows
StitchedTable(d, k) ==
    LET S == {i \in 1..k : NonEmptyPage(d[i])}
    IN  IF S = {} THEN <<>>
        ELSE LET first == CHOOSE i \in S : \A j \in S : i <= j
             IN  d[first].rows \o LaterRows(d, first + 1, k)

\* C1: after the page loop has processed pages 1..k, the accumulated table is the
\* whole table of the lowest-numbered page with a non-empty table, followed in page
\* order by all rows but the first of every later page with a non-empty table;
\* pages that returned nothing or raised contribute nothing.
C1_PageStitching ==
    cpc \in {"loop", "frame", "coerce"} =>
        all_tables = StitchedTable(pdf, page_number)

C1_Witness ==
    /\ cpc = "loop"
    /\ page_number = 3
    /\ pdf[1].kind = "raise"
    /\ NonEmptyPage(pdf[2])
    /\ NonEmptyPage(pdf[3])
    /\ Len(pdf[3].rows) = 2
    /\ all_tables = pdf[2].rows \o <<pdf[3].rows[2]>>

\* a document of N >= 1 pages that all hold the same table of one header row and
\* M >= 0 data rows
IdenticalPages ==
    /\ Len(pdf) >= 1
    /\ pdf[1].kind = "table"
    /\ Len(pdf[1].rows) >= 1
    /\ \A i \in 1..Len(pdf) : pdf[i] = pdf[1]

PagesN == Len(pdf)
DataRowsM == Len(pdf[1].rows) - 1
LoopDone == cpc \in {"loop", "frame", "coerce", "returned"} /\ total_pages = Len(pdf)
                /\ page_number = total_pages

\* C2 as stated: for N >= 1 identical pages of one header row and M >= 0 data rows
\* the call produces an output table of N*M data rows under one header row.
C2_Original ==
    (IdenticalPages /\ cpc = "returned" /\ raised = {}) =>
        (success /\ df.built /\ Len(df.data) = PagesN * DataRowsM)

\* C2 as amended: for N >= 1 identical pages of one header row and M data rows the
\* accumulated table has 1 + N*M rows after the page loop; with M >= 1 the table
\* built from it has N*M data rows under one row of labels and the call succeeds
\* unless a library call raises; with M = 0 the call returns False and builds no
\* output table.
C2_HeaderStripping ==
    (IdenticalPages /\ LoopDone) =>
        /\ Len(all_tables) = 1 + PagesN * DataRowsM
        /\ df.built => /\ DataRowsM >= 1
                       /\ Len(df.data) = PagesN * DataRowsM
                       /\ Len(df.columns) >= 1
        /\ (cpc = "returned" /\ DataRowsM >= 1 /\ raised = {}) => (success /\ df.built)
        /\ (cpc = "returned" /\ DataRowsM = 0) =>
               (~success /\ ~df.built /\ excel_path \notin fs)

C2_Witness ==
    /\ IdenticalPages
    /\ PagesN = 3
    /\ DataRowsM = 1
    /\ cpc = "returned"
    /\ success
    /\ Len(df.data) = 3

\* the call got past the page loop and returned from line 70
ReturnedNoTable ==
    /\ cpc = "returned"
    /\ opened = 1
    /\ \A r \in raised : r.at = "extract"
    /\ Len(all_tables) <= 1

\* C3: if the accumulated table is absent or has at most one row after all pages,
\* the call returns False without raising and before it creates a directory or
\* writes a file: the filesystem under the output path is as the call found it.
C3_NoUsableTable ==
    /\ cpc \in {"frame", "coerce"} => Len(all_tables) >= 2
    /\ ReturnedNoTable =>
          /\ ~success
          /\ page_number = total_pages
          /\ ~df.built
          /\ fs = fs_before.fs
          /\ dirs = fs_before.dirs

C3_Witness ==
    /\ ReturnedNoTable
    /\ total_pages = 3
    /\ Len(all_tables) = 1
    /\ ~success

SaveErrors == {r \in raised : r.at \in {"makedirs", "to_excel"}}
LogHas(msg) == \E i \in 1..Len(log) : log[i].msg = msg

\* C4: no error escapes convert_pdf_to_excel: at every failure point the call
\* returns a boolean, True only if the spreadsheet write completed, and a
\* non-existent input path yields False without the PDF being opened.
C4_NoErrorEscapes ==
    /\ cpc # "escaped"
    /\ (cpc = "returned" /\ raised \ {r \in raised : r.at \in {"extract", "coerce"}} # {})
           => ~success
    /\ (cpc = "returned" /\ success) => (excel_path \in fs /\ Dirname(excel_path) \in dirs)
    /\ LogHas("PDF file not found") => (cpc = "returned" /\ ~success /\ opened = 0)
    /\ (cpc = "returned" /\ opened = 0) => ~success

C4_Witness ==
    /\ cpc = "returned"
    /\ ~success
    /\ [at |-> "to_excel", kind |-> "OSError"] \in raised

\* C7 as stated: whatever error the coercion of a column raises, a warning is
\* logged, the remaining columns are processed and the call goes on to write the
\* spreadsheet and return True.
C7_CoercionNeverAborts ==
    ((\E r \in raised : r.at = "coerce") /\ SaveErrors = {}) =>
        /\ cpc \in {"coerce", "returned"}
        /\ LogHas("Column could not be converted")
        /\ cpc = "returned" => (success /\ col > Len(df.columns))

\* the paths of the .pdf files of the input tree, in walk order
RECURSIVE PdfPaths(_)
PdfPaths(w) ==
    IF w = <<>> THEN <<>>
    ELSE (IF Len(w[1].file_name) >= 4
             /\ Lower(SubSeq(w[1].file_name, Len(w[1].file_name) - 3,
                             Len(w[1].file_name))) = DotPdf
          THEN <<w[1].root_dir \o <<w[1].file_name>>>> ELSE <<>>)
             \o PdfPaths(Tail(w))

BothFolders == input_folder # <<>> /\ output_parent_folder # <<>>
RunEnded == pc \in {"returned", "raised"}

\* C5 as stated: once run() has both folders, every .pdf file of the input tree is
\* passed to convert_pdf_to_excel exactly once, in walk order, whatever the outcome
\* of the conversions before it: when run() has ended, the calls made are exactly
\* the .pdf files in walk order, and before that they are a prefix of them.
C5_EveryPdfConverted ==
    BothFolders =>
        LET want == PdfPaths(Walk(tree, input_folder))
            got  == [i \in 1..Len(calls) |-> calls[i].pdf_path]
        IN  /\ Len(got) <= Len(want)
            /\ got = SubSeq(want, 1, Len(got))
            /\ RunEnded => got = want

\* the relative path of a call's input file, its name and its directories
RelOf(c) == SubSeq(c.pdf_path, Len(InputFolder) + 1, Len(c.pdf_path))
NameOf(c) == c.pdf_path[Len(c.pdf_path)]
DirsOf(c) == SubSeq(RelOf(c), 1, Len(RelOf(c)) - 1)
OnlyDotsBeforeSuffix(name) == \A i \in 1..(Len(name) - 4) : name[i] = "."

\* C6 as stated: the file at relative path R is converted to
\* <output_parent>/<basename of input folder>/<R with its extension replaced by .xlsx>.
C6_Original ==
    \A i \in 1..Len(calls) :
        calls[i].excel_path =
            OutputParent \o <<DirIn>> \o DirsOf(calls[i])
                \o <<SubSeq(NameOf(calls[i]), 1, Len(NameOf(calls[i])) - 4) \o DotXlsx>>

\* C6 as amended: the file at relative path R is converted to <output_parent>/
\* <basename of input folder>/<directories of R>/<name>, where <name> is the file
\* name with its final .pdf (in any case) replaced by .xlsx, except that a file name
\* in which only dots precede that final .pdf (".pdf" itself) keeps its whole name
\* and gets .xlsx appended.
C6_MirroredPath ==
    \A i \in 1..Len(calls) :
        LET name == NameOf(calls[i])
            stem == IF OnlyDotsBeforeSuffix(name) THEN name
                    ELSE SubSeq(name, 1, Len(name) - 4)
        IN  /\ Lower(SubSeq(name, Len(name) - 3, Len(name))) = DotPdf
            /\ calls[i].excel_path =
                   OutputParent \o <<DirIn>> \o DirsOf(calls[i]) \o <<stem \o DotXlsx>>

C6_Witness ==
    /\ Len(calls) = 3
    /\ calls[1] = [pdf_path   |-> <<DirHome, DirIn, <<"a", ".", "p", "d", "f">>>>,
                   excel_path |-> <<DirOut, DirIn, <<"a", ".", "x", "l", "s", "x">>>>]
    /\ calls[2].excel_path = <<DirOut, DirIn, DotPdf \o DotXlsx>>
    /\ calls[3] = [pdf_path   |-> <<DirHome, DirIn, DirSub, <<"a", ".", "P", "D", "F">>>>,
                   excel_path |-> <<DirOut, DirIn, DirSub,
                                    <<"a", ".", "x", "l", "s", "x">>>>]
    /\ pc = "returned"

\* C8: the document handle a call opens is closed on every exit path of the call,
\* so at most one handle is open at any time during run() and none is open when a
\* call starts or after it has returned.
C8_HandleClosed ==
    /\ Cardinality(handles) <= 1
    /\ handles # {} => (handles = {pdf_path} /\ cpc \in {"pages", "loop", "frame", "coerce"})
    /\ cpc \in {"idle", "exists", "open", "returned", "escaped"} => handles = {}

C8_Witness ==
    /\ Len(calls) = 2
    /\ cpc = "returned"
    /\ opened = 1
    /\ [at |-> "to_excel", kind |-> "OSError"] \in raised
    /\ handles = {}
    /\ excel_path \in fs

\* C9 as stated: every execution of run() ends normally and its last action is
\* printing the final summary line naming the output folder, also when folder
\* selection is cancelled and when conversions fail.
C9_Original ==
    RunEnded =>
        /\ pc = "returned"
        /\ last_print = [kind |-> "All files processed", arg |-> <<DirOut, DirIn>>]

\* C9 as amended: every execution of run() ends, in one of three ways.  When a
\* folder selection is cancelled, run() returns after printing "No valid folders
\* selected", without a summary and with no file processed.  When both folders are
\* selected and the output folder is created, run() returns after all files were
\* taken, its last action printing the summary that names the output folder,
\* whatever conversions failed.  When tkinter's start or the creation of the
\* output folder raises, the error leaves run() before any file is processed.
C9_Endings ==
    /\ pc = "returned" =>
          \/ /\ ~BothFolders
             /\ last_print = [kind |-> "No valid folders selected", arg |-> <<>>]
             /\ calls = <<>>
             /\ fs = {} /\ dirs = {}
          \/ /\ BothFolders
             /\ last_print = [kind |-> "All files processed", arg |-> <<DirOut, DirIn>>]
             /\ output_folder = <<DirOut, DirIn>>
             /\ wi = Len(tree[1].files) + Len(tree[2].files)
             /\ cpc \in {"idle"}
    /\ pc = "raised" =>
          /\ calls = <<>>
          /\ last_print.kind = ""
          /\ fs = {}
    /\ cpc = "returned" => pc = "convert"

C9_Terminates == <>RunEnded /\ []C9_Endings

C9_Witness ==
    /\ pc = "returned"
    /\ BothFolders
    /\ last_print.kind = "All files processed"
    /\ Len(calls) = 3
    /\ ~success
    /\ Cardinality(fs) = 1

\* C10 as stated: two distinct input files of one run never get the same output
\* path.
C10_InjectiveOutputPaths ==
    \A i, j \in 1..Len(calls) :
        calls[i].pdf_path # calls[j].pdf_path =>
            calls[i].excel_path # calls[j].excel_path

\* the process ends: the dialogs are answered and every library call returns
FairSpec == Spec /\ WF_vars(Next)

====
